---- MODULE Spec2Model ----
(***************************************************************************)
(* The JSON scalar of graphql-json-scalar-ts: the structural validator     *)
(* isJSONValue, the value converters serialize / parseValue and the        *)
(* literal decoder parseLiteral (src/src/JSONScalar.ts).                   *)
(*                                                                         *)
(* JavaScript values are modelled as records [kind, str, num, exp]:        *)
(* primitives and the immutable built-in instances (Date, RegExp, Error)   *)
(* carry their payload, and arrays and objects are references              *)
(* (kind "ref", num = address) into `heap`, so that object identity,       *)
(* prototypes and own properties are what the code sees.                   *)
(***************************************************************************)
EXTENDS Integers, Sequences, FiniteSets, TLC

VARIABLES heap, doc, out

vars == <<heap, doc, out>>

---------------------------------------------------------------------------
(* Bounds of the model *)

\* containers plus property/element cells the caller may build in the heap
MaxNodes == 3
\* nodes of the literal document handed to parseLiteral
MaxDocNodes == 3
\* call-stack frames available to the recursion of isJSONValue
StackLimit == 8

---------------------------------------------------------------------------
(* JavaScript values *)

V(k, s, n, e) == [kind |-> k, str |-> s, num |-> n, exp |-> e]

Null == V("null", "", 0, 0)
Undefined == V("undefined", "", 0, 0)
Str(s) == V("string", s, 0, 0)
\* a finite number is num * 10^exp, num not divisible by 10 (0 is 0 * 10^0)
Num(m, e) == V("number", "", m, e)
NaN == V("number", "NaN", 0, 0)
Bool(b) == V("boolean", IF b THEN "true" ELSE "false", 0, 0)
BigInt(n) == V("bigint", "", n, 0)
\* a function value, str is its name ("" for an arrow function)
Fn(name) == V("function", name, 0, 0)
Symbol(description) == V("symbol", description, 0, 0)
\* a Date whose time value is day `d` since the epoch plus `ms` milliseconds
DateOf(d, ms) == V("Date", "", d, ms)
\* new Date(NaN): a Date whose time value is NaN
InvalidDate == V("Date", "Invalid Date", 0, 0)
RegExp(source) == V("RegExp", source, 0, 0)
Error(message) == V("Error", message, 0, 0)
\* a reference to the array or object at heap address a
Ref(a) == V("ref", "", a, 0)
\* the built-in prototype objects
Builtin(name) == V("builtin", name, 0, 0)

ObjectPrototype == Builtin("Object.prototype")
ArrayPrototype == Builtin("Array.prototype")
\* class TestClass {}  and  class MyArray extends Array {}
TestClassPrototype == Builtin("TestClass.prototype")
MyArrayPrototype == Builtin("MyArray.prototype")

\* the `constructor` property a built-in prototype carries
ConstructorOf(p) ==
  CASE p = "Object.prototype" -> Fn("Object")
    [] p = "Array.prototype" -> Fn("Array")
    [] p = "TestClass.prototype" -> Fn("TestClass")
    [] p = "MyArray.prototype" -> Fn("MyArray")

\* a heap object: an exotic array (isArray) or an ordinary object, its
\* prototype, and its own enumerable properties in insertion order
\* (for an array keys is empty and vals are the elements 0..length-1)
HeapObject(arr, p, ks, vs) == [isArray |-> arr, proto |-> p, keys |-> ks, vals |-> vs]

IndexOfKey(o, k) ==
  IF \E i \in 1..Len(o.keys) : o.keys[i] = k
  THEN CHOOSE i \in 1..Len(o.keys) : o.keys[i] = k
  ELSE 0

\* value.constructor : the own property if there is one, else the lookup
\* along the prototype chain
RECURSIVE GetConstructor(_, _)
GetConstructor(o, h) ==
  IF IndexOfKey(o, "constructor") > 0 THEN o.vals[IndexOfKey(o, "constructor")]
  ELSE IF o.proto.kind = "null" THEN Undefined
  ELSE IF o.proto.kind = "builtin" THEN ConstructorOf(o.proto.str)
  ELSE GetConstructor(h[o.proto.num], h)

---------------------------------------------------------------------------
(* Completion records: a call returns a value or throws *)

Return(v) == [kind |-> "return", value |-> v, error |-> "", message |-> ""]
Throw(e, m) == [kind |-> "throw", value |-> Undefined, error |-> e, message |-> m]

StackOverflow == Throw("RangeError", "Maximum call stack size exceeded")

---------------------------------------------------------------------------
(* isJSONValue *)

RECURSIVE isJSONValue(_, _, _)
RECURSIVE every(_, _, _, _)

\* items.every((item) => isJSONValue(item)) from index i on: left to right,
\* stopping at the first item that is rejected
every(items, i, h, frames) ==
  IF i > Len(items) THEN Return(Bool(TRUE))
  ELSE LET r == isJSONValue(items[i], h, frames)
       IN IF r.kind = "throw" \/ r.value = Bool(FALSE) THEN r
          ELSE every(items, i + 1, h, frames)

isJSONValue(value, h, frames) ==
  IF frames = 0 THEN StackOverflow
  ELSE IF value.kind = "null" THEN Return(Bool(TRUE))
  ELSE IF value.kind \in {"string", "number", "boolean"} THEN Return(Bool(TRUE))
  ELSE IF value.kind \in {"undefined", "function", "symbol"} THEN Return(Bool(FALSE))
  ELSE IF value.kind \in {"Date", "RegExp", "Error"} THEN Return(Bool(FALSE))
  ELSE IF value.kind = "ref" /\ h[value.num].isArray
       THEN every(h[value.num].vals, 1, h, frames - 1)
  ELSE IF value.kind = "ref"
       THEN IF GetConstructor(h[value.num], h) # Fn("Object")
               /\ GetConstructor(h[value.num], h) # Undefined
            THEN Return(Bool(FALSE))
            ELSE every(h[value.num].vals, 1, h, frames - 1)
  ELSE Return(Bool(FALSE))

---------------------------------------------------------------------------
(* Text renderings: Date.prototype.toISOString and String(value) *)

Pad2(n) == IF n < 10 THEN "0" \o ToString(n) ELSE ToString(n)
Pad3(n) == IF n < 10 THEN "00" \o ToString(n) ELSE IF n < 100 THEN "0" \o ToString(n) ELSE ToString(n)
Pad4(n) == IF n < 1000 THEN "0" \o Pad3(n) ELSE ToString(n)
Pad6(n) == IF n < 10000 THEN "00" \o Pad4(n) ELSE IF n < 100000 THEN "0" \o ToString(n) ELSE ToString(n)

\* the civil date of day `days` since 1970-01-01 (proleptic Gregorian)
CivilFromDays(days) ==
  LET z == days + 719468
      era == z \div 146097
      doe == z - era * 146097
      yoe == (doe - (doe \div 1460) + (doe \div 36524) - (doe \div 146096)) \div 365
      doy == doe - (365 * yoe + (yoe \div 4) - (yoe \div 100))
      mp == (5 * doy + 2) \div 153
      d == doy - ((153 * mp + 2) \div 5) + 1
      m == IF mp < 10 THEN mp + 3 ELSE mp - 9
  IN [year |-> yoe + era * 400 + (IF m <= 2 THEN 1 ELSE 0), month |-> m, day |-> d]

TimeOfDay(ms) ==
  Pad2(ms \div 3600000) \o ":" \o Pad2((ms \div 60000) % 60) \o ":" \o Pad2((ms \div 1000) % 60)

YearText(y) ==
  IF y >= 0 /\ y <= 9999 THEN Pad4(y)
  ELSE IF y < 0 THEN "-" \o Pad6(0 - y) ELSE "+" \o Pad6(y)

\* value.toISOString(): YYYY-MM-DDTHH:mm:ss.sssZ, a RangeError for a Date
\* whose time value is NaN
toISOString(d) ==
  IF d.str = "Invalid Date" THEN Throw("RangeError", "Invalid time value")
  ELSE LET c == CivilFromDays(d.num)
       IN Return(Str(YearText(c.year) \o "-" \o Pad2(c.month) \o "-" \o Pad2(c.day) \o "T"
                     \o TimeOfDay(d.exp) \o "." \o Pad3(d.exp % 1000) \o "Z"))

WeekDays == <<"Thu", "Fri", "Sat", "Sun", "Mon", "Tue", "Wed">>
Months == <<"Jan", "Feb", "Mar", "Apr", "May", "Jun", "Jul", "Aug", "Sep", "Oct", "Nov", "Dec">>

\* Date.prototype.toString() on a host whose time zone is UTC
DateToString(d) ==
  IF d.str = "Invalid Date" THEN "Invalid Date"
  ELSE LET c == CivilFromDays(d.num)
       IN WeekDays[(d.num % 7) + 1] \o " " \o Months[c.month] \o " " \o Pad2(c.day) \o " "
          \o YearText(c.year) \o " " \o TimeOfDay(d.exp)
          \o " GMT+0000 (Coordinated Universal Time)"

RECURSIVE Zeros(_)
Zeros(n) == IF n = 0 THEN "" ELSE "0" \o Zeros(n - 1)

RECURSIVE Pow10(_)
Pow10(n) == IF n = 0 THEN 1 ELSE 10 * Pow10(n - 1)

PadTo(n, width) ==
  LET RECURSIVE Digits(_)
      Digits(k) == IF k = 0 THEN 0 ELSE 1 + Digits(k \div 10)
  IN Zeros(width - (IF n = 0 THEN 1 ELSE Digits(n))) \o ToString(n)

\* Number.prototype.toString() for the decimal numbers of the model
NumberToString(v) ==
  IF v.str = "NaN" THEN "NaN"
  ELSE IF v.exp >= 0 THEN ToString(v.num) \o (IF v.num = 0 THEN "" ELSE Zeros(v.exp))
  ELSE LET a == IF v.num < 0 THEN 0 - v.num ELSE v.num
           p == Pow10(0 - v.exp)
       IN (IF v.num < 0 THEN "-" ELSE "") \o ToString(a \div p) \o "."
          \o PadTo(a % p, 0 - v.exp)

\* Function.prototype.toString(): the source text of the function
FunctionSource(f) ==
  IF f.str = "" THEN "() => {}"
  ELSE IF f.str \in {"Object", "Array"} THEN "function " \o f.str \o "() { [native code] }"
  ELSE "class " \o f.str \o " {}"

RECURSIVE JSToString(_, _, _)
RECURSIVE join(_, _, _, _)

\* Array.prototype.join(","): null and undefined elements render as "",
\* every other element by ToString, whose failure propagates
join(items, i, h, seen) ==
  IF i > Len(items) THEN Return(Str(""))
  ELSE LET first == IF items[i].kind \in {"null", "undefined"} THEN Return(Str(""))
                    ELSE JSToString(items[i], h, seen)
           rest == join(items, i + 1, h, seen)
       IN IF first.kind = "throw" THEN first
          ELSE IF rest.kind = "throw" THEN rest
          ELSE Return(Str(first.value.str \o (IF i < Len(items) THEN "," ELSE "") \o rest.value.str))

\* The abstract operation ToString(value). `seen` holds the arrays being
\* joined: an array met again while it is joined renders as "".
JSToString(value, h, seen) ==
  CASE value.kind = "null" -> Return(Str("null"))
    [] value.kind = "undefined" -> Return(Str("undefined"))
    [] value.kind = "string" -> Return(Str(value.str))
    [] value.kind = "boolean" -> Return(Str(value.str))
    [] value.kind = "number" -> Return(Str(NumberToString(value)))
    [] value.kind = "bigint" -> Return(Str(ToString(value.num)))
    [] value.kind = "symbol" -> Throw("TypeError", "Cannot convert a Symbol value to a string")
    [] value.kind = "function" -> Return(Str(FunctionSource(value)))
    [] value.kind = "Date" -> Return(Str(DateToString(value)))
    [] value.kind = "RegExp" -> Return(Str("/" \o value.str \o "/"))
    [] value.kind = "Error" -> Return(Str(IF value.str = "" THEN "Error" ELSE "Error: " \o value.str))
    [] value.kind = "ref" ->
         LET o == h[value.num]
         IN IF o.isArray
            THEN IF value.num \in seen THEN Return(Str(""))
                 ELSE join(o.vals, 1, h, seen \cup {value.num})
            ELSE IF o.proto.kind = "null"
                 THEN Throw("TypeError", "Cannot convert object to primitive value")
            ELSE IF o.proto.kind = "ref" THEN JSToString(o.proto, h, seen)
            ELSE IF o.proto \in {ArrayPrototype, MyArrayPrototype} THEN Return(Str(""))
            ELSE Return(Str("[object Object]"))

\* String(value): as ToString, but a symbol renders as its description
String(value, h) ==
  IF value.kind = "symbol" THEN Return(Str("Symbol(" \o value.str \o ")"))
  ELSE JSToString(value, h, {})

---------------------------------------------------------------------------
(* serialize and parseValue *)

serialize(value, h) ==
  IF value.kind = "Date" THEN toISOString(value)
  ELSE LET valid == isJSONValue(value, h, StackLimit)
           text == String(value, h)
       IN IF valid.kind = "throw" THEN valid
          ELSE IF valid.value = Bool(FALSE)
          THEN IF text.kind = "throw" THEN text
               ELSE Throw("TypeError",
                          "JSON cannot represent value: " \o text.value.str \o "."
                          \o "Only plain objects, arrays, and primitives are supported.")
          ELSE Return(value)

\* parseValue without its Date branch
parseValue_NoDateBranch(value, h) ==
  LET valid == isJSONValue(value, h, StackLimit)
      text == String(value, h)
  IN IF valid.kind = "throw" THEN valid
     ELSE IF valid.value = Bool(FALSE)
     THEN IF text.kind = "throw" THEN text
          ELSE Throw("TypeError",
                     "JSON cannot represent value: " \o text.value.str \o "."
                     \o "Only plain objects, arrays, and primitives are supported.")
     ELSE Return(value)

parseValue(value, h) ==
  IF value.kind = "Date" THEN toISOString(value)
  ELSE LET valid == isJSONValue(value, h, StackLimit)
           text == String(value, h)
       IN IF valid.kind = "throw" THEN valid
          ELSE IF valid.value = Bool(FALSE)
          THEN IF text.kind = "throw" THEN text
               ELSE Throw("TypeError",
                          "JSON cannot represent value: " \o text.value.str \o "."
                          \o "Only plain objects, arrays, and primitives are supported.")
          ELSE Return(value)

---------------------------------------------------------------------------
(* Literal documents: the ValueNode of graphql *)

Node(k, v, vs, fs) == [kind |-> k, value |-> v, values |-> vs, fields |-> fs]

StringValueNode(text) == Node("StringValue", text, <<>>, <<>>)
IntValueNode(text) == Node("IntValue", text, <<>>, <<>>)
FloatValueNode(text) == Node("FloatValue", text, <<>>, <<>>)
\* the value of a BooleanValue node is the boolean, written "true" / "false"
BooleanValueNode(b) == Node("BooleanValue", b, <<>>, <<>>)
NullValueNode == Node("NullValue", "", <<>>, <<>>)
EnumValueNode(text) == Node("EnumValue", text, <<>>, <<>>)
VariableNode(name) == Node("Variable", name, <<>>, <<>>)
ListValueNode(vs) == Node("ListValue", "", vs, <<>>)
ObjectValueNode(fs) == Node("ObjectValue", "", <<>>, fs)
ObjectFieldNode(n, v) == [name |-> [value |-> n], value |-> v]

\* Kind.STRING, Kind.INT, ... : the tags parseLiteral has a case for
SupportedKinds ==
  {"StringValue", "IntValue", "FloatValue", "BooleanValue", "NullValue",
   "ListValue", "ObjectValue"}

---------------------------------------------------------------------------
(* parseInt(text, 10) and parseFloat(text) *)

\* the characters of the numeric texts of the model
Chars(text) ==
  CASE text = "42" -> <<"4", "2">>
    [] text = "1" -> <<"1">>
    [] text = "2" -> <<"2">>
    [] text = "3" -> <<"3">>
    [] text = "-7" -> <<"-", "7">>
    [] text = "100" -> <<"1", "0", "0">>
    [] text = "3.14" -> <<"3", ".", "1", "4">>
    [] text = "-0.5" -> <<"-", "0", ".", "5">>
    [] text = "2.0" -> <<"2", ".", "0">>
    [] text = "1e2" -> <<"1", "e", "2">>
    [] text = "25E-1" -> <<"2", "5", "E", "-", "1">>
    [] text = "TEST" -> <<"T", "E", "S", "T">>

DigitChars == {"0", "1", "2", "3", "4", "5", "6", "7", "8", "9"}

DigitValue(c) ==
  CASE c = "0" -> 0 [] c = "1" -> 1 [] c = "2" -> 2 [] c = "3" -> 3 [] c = "4" -> 4
    [] c = "5" -> 5 [] c = "6" -> 6 [] c = "7" -> 7 [] c = "8" -> 8 [] c = "9" -> 9

\* the first index from i on that holds no digit
RECURSIVE DigitsEnd(_, _)
DigitsEnd(cs, i) ==
  IF i <= Len(cs) /\ cs[i] \in DigitChars THEN DigitsEnd(cs, i + 1) ELSE i

\* the number the digits cs[i..j-1] write
RECURSIVE DigitsValue(_, _, _)
DigitsValue(cs, i, j) ==
  IF j <= i THEN 0 ELSE DigitsValue(cs, i, j - 1) * 10 + DigitValue(cs[j - 1])

\* the number m * 10^e
RECURSIVE Normalize(_, _)
Normalize(m, e) ==
  IF m = 0 THEN Num(0, 0)
  ELSE IF m % 10 = 0 THEN Normalize(m \div 10, e + 1)
  ELSE Num(m, e)

HasSign(cs) == Len(cs) >= 1 /\ cs[1] \in {"-", "+"}
SignOf(cs) == IF Len(cs) >= 1 /\ cs[1] = "-" THEN 0 - 1 ELSE 1

\* parseInt(text, 10): an optional sign and the longest run of digits
\* after it; NaN when there is no digit
parseInt(text) ==
  LET cs == Chars(text)
      start == IF HasSign(cs) THEN 2 ELSE 1
      end == DigitsEnd(cs, start)
  IN IF end = start THEN NaN
     ELSE Normalize(SignOf(cs) * DigitsValue(cs, start, end), 0)

\* parseFloat(text): the longest prefix that is a decimal literal
\* (sign, digits, fraction, exponent); NaN when there is none
parseFloat(text) ==
  LET cs == Chars(text)
      start == IF HasSign(cs) THEN 2 ELSE 1
      intEnd == DigitsEnd(cs, start)
      hasDot == intEnd <= Len(cs) /\ cs[intEnd] = "."
      fracEnd == IF hasDot THEN DigitsEnd(cs, intEnd + 1) ELSE intEnd
      nFrac == IF hasDot THEN fracEnd - intEnd - 1 ELSE 0
      hasExp == fracEnd <= Len(cs) /\ cs[fracEnd] \in {"e", "E"}
      expSigned == hasExp /\ fracEnd + 1 <= Len(cs) /\ cs[fracEnd + 1] \in {"-", "+"}
      expStart == IF expSigned THEN fracEnd + 2 ELSE fracEnd + 1
      expEnd == IF hasExp THEN DigitsEnd(cs, expStart) ELSE expStart
      expValue == IF hasExp /\ expEnd > expStart
                  THEN (IF expSigned /\ cs[fracEnd + 1] = "-" THEN 0 - 1 ELSE 1)
                       * DigitsValue(cs, expStart, expEnd)
                  ELSE 0
      mantissa == DigitsValue(cs, start, intEnd) * Pow10(nFrac)
                  + (IF hasDot THEN DigitsValue(cs, intEnd + 1, fracEnd) ELSE 0)
  IN IF (intEnd - start) + nFrac = 0 THEN NaN
     ELSE Normalize(SignOf(cs) * mantissa, expValue - nFrac)

---------------------------------------------------------------------------
(* parseLiteral *)

\* a completion together with the heap the call leaves behind
LitReturn(v, h) == [kind |-> "return", value |-> v, error |-> "", message |-> "", heap |-> h]
LitThrow(e, m, h) == [kind |-> "throw", value |-> Undefined, error |-> e, message |-> m, heap |-> h]

\* whether obj["__proto__"] reaches the accessor of Object.prototype
RECURSIVE ProtoAccessorVisible(_, _)
ProtoAccessorVisible(o, h) ==
  IF IndexOfKey(o, "__proto__") > 0 THEN FALSE
  ELSE IF o.proto.kind = "null" THEN FALSE
  ELSE IF o.proto.kind = "builtin" THEN TRUE
  ELSE ProtoAccessorVisible(h[o.proto.num], h)

\* obj[key] = v on the ordinary object at address a: the __proto__ accessor
\* replaces the prototype when v is an object or null and ignores any other
\* value; every other key is written as an own property, in place when the
\* object has it already
SetProperty(h, a, key, v) ==
  LET o == h[a]
      i == IndexOfKey(o, key)
  IN IF key = "__proto__" /\ ProtoAccessorVisible(o, h)
     THEN IF v.kind \in {"ref", "null"} THEN [h EXCEPT ![a].proto = v] ELSE h
     ELSE IF i > 0 THEN [h EXCEPT ![a].vals[i] = v]
     ELSE [h EXCEPT ![a].keys = Append(@, key), ![a].vals = Append(@, v)]

RECURSIVE parseLiteral(_, _)
RECURSIVE mapValues(_, _, _, _)
RECURSIVE forFields(_, _, _, _)
RECURSIVE mapValues_Reversed(_, _, _, _)
RECURSIVE forFields_SkipFailed(_, _, _, _)

\* a map that stores each decoded element in front of the earlier ones
mapValues_Reversed(values, i, a, h) ==
  IF i > Len(values) THEN LitReturn(Ref(a), h)
  ELSE LET r == parseLiteral(values[i], h)
       IN IF r.kind = "throw" THEN r
          ELSE mapValues_Reversed(values, i + 1, a,
                                  [r.heap EXCEPT ![a].vals = <<r.value>> \o @])

\* a field loop that drops a field whose value cannot be decoded
forFields_SkipFailed(fields, i, a, h) ==
  IF i > Len(fields) THEN LitReturn(Ref(a), h)
  ELSE LET r == parseLiteral(fields[i].value, h)
       IN IF r.kind = "throw" THEN forFields_SkipFailed(fields, i + 1, a, h)
          ELSE forFields_SkipFailed(fields, i + 1, a,
                                    SetProperty(r.heap, a, fields[i].name.value, r.value))

\* ast.values.map((val) => parseLiteral(val)) from index i on, filling the
\* array at address a
mapValues(values, i, a, h) ==
  IF i > Len(values) THEN LitReturn(Ref(a), h)
  ELSE LET r == parseLiteral(values[i], h)
       IN IF r.kind = "throw" THEN r
          ELSE mapValues(values, i + 1, a, [r.heap EXCEPT ![a].vals = Append(@, r.value)])

\* for (const field of ast.fields) obj[field.name.value] = parseLiteral(field.value)
forFields(fields, i, a, h) ==
  IF i > Len(fields) THEN LitReturn(Ref(a), h)
  ELSE LET r == parseLiteral(fields[i].value, h)
       IN IF r.kind = "throw" THEN r
          ELSE forFields(fields, i + 1, a, SetProperty(r.heap, a, fields[i].name.value, r.value))

parseLiteral(ast, h) ==
  CASE ast.kind = "StringValue" -> LitReturn(Str(ast.value), h)
    [] ast.kind = "IntValue" -> LitReturn(parseInt(ast.value), h)
    [] ast.kind = "FloatValue" -> LitReturn(parseFloat(ast.value), h)
    [] ast.kind = "BooleanValue" -> LitReturn(V("boolean", ast.value, 0, 0), h)
    [] ast.kind = "NullValue" -> LitReturn(Null, h)
    [] ast.kind = "ListValue" ->
         mapValues(ast.values, 1, Len(h) + 1,
                   Append(h, HeapObject(TRUE, ArrayPrototype, <<>>, <<>>)))
    [] ast.kind = "ObjectValue" ->
         forFields(ast.fields, 1, Len(h) + 1,
                   Append(h, HeapObject(FALSE, ObjectPrototype, <<>>, <<>>)))
    [] OTHER ->
         LitThrow("TypeError",
                  "JSON cannot represent value: " \o ast.kind \o "."
                  \o "Only StringValue, IntValue, FloatValue, BooleanValue, NullValue, ObjectValue, and ListValue are supported",
                  h)

---------------------------------------------------------------------------
(* Inputs *)

\* the values a caller passes directly
Primitives ==
  { Null, Undefined, Str("hello"), Num(42, 0), Num(314, -2), Bool(TRUE), BigInt(10),
    Fn(""), Symbol("test"), DateOf(19358, 0), DateOf(-1, 86399999), InvalidDate,
    RegExp("test"), Error("test") }

\* the primitives a caller stores in arrays and objects
Elements ==
  { Null, Str("hello"), Num(42, 0), Bool(TRUE), Undefined, Fn(""), Symbol("test"),
    DateOf(19358, 0), RegExp("test"), Error("test") }

PropNames == {"a", "constructor"}

Shapes ==
  { <<TRUE, ArrayPrototype>>, <<TRUE, MyArrayPrototype>>,
    <<FALSE, ObjectPrototype>>, <<FALSE, Null>>, <<FALSE, TestClassPrototype>> }

\* the values a caller passes to the scalar: a primitive or, once it has
\* built arrays and objects, one of them
Values(h) == IF Len(h) = 0 THEN Primitives ELSE { Ref(a) : a \in 1..Len(h) }

ElementValues(h) == Elements \cup { Ref(a) : a \in 1..Len(h) }

RECURSIVE Cells(_, _)
Cells(h, a) == IF a = 0 THEN 0 ELSE Len(h[a].vals) + Cells(h, a - 1)

NodeCount(h) == Len(h) + Cells(h, Len(h))

Injective(s) == \A i, j \in 1..Len(s) : s[i] = s[j] => i = j

NoCall == [op |-> "none", input |-> Undefined, kind |-> "none",
           value |-> Undefined, error |-> "", message |-> ""]

Record(name, v, r) == [op |-> name, input |-> v, kind |-> r.kind,
                       value |-> r.value, error |-> r.error, message |-> r.message]

\* the leaves a literal document starts from
Leaves ==
  { StringValueNode("test"), IntValueNode("42"), IntValueNode("-7"), IntValueNode("100"),
    FloatValueNode("3.14"), FloatValueNode("1e2"), BooleanValueNode("true"), NullValueNode,
    EnumValueNode("TEST"), VariableNode("x"), ListValueNode(<<>>), ObjectValueNode(<<>>) }

\* the leaves added to a list or an object of the document
InsertLeaves ==
  { IntValueNode("1"), NullValueNode, EnumValueNode("TEST") }

FieldNames == {"a", "constructor", "__proto__"}

RECURSIVE Size(_)
RECURSIVE SizeAll(_, _)
SizeAll(nodes, i) == IF i > Len(nodes) THEN 0 ELSE Size(nodes[i]) + SizeAll(nodes, i + 1)
Size(ast) ==
  1 + SizeAll(ast.values, 1) + SizeAll([i \in 1..Len(ast.fields) |-> ast.fields[i].value], 1)

InsertAt(s, pos, x) == SubSeq(s, 1, pos - 1) \o <<x>> \o SubSeq(s, pos, Len(s))

Init ==
  /\ heap = <<>>
  /\ doc = NullValueNode
  /\ out = NoCall

\* the caller builds an array or an object out of the values it has
Alloc ==
  \E shape \in Shapes, n \in 0..MaxNodes :
    /\ NodeCount(heap) + 1 + n <= MaxNodes
    /\ \E vs \in [1..n -> ElementValues(heap)] :
         \E ks \in IF shape[1] THEN {<<>>} ELSE { s \in [1..n -> PropNames] : Injective(s) } :
           heap' = Append(heap, HeapObject(shape[1], shape[2], ks, vs))
    /\ out' = NoCall
    /\ UNCHANGED doc

CallIsJSONValue ==
  \E v \in Values(heap) :
    /\ out' = Record("isJSONValue", v, isJSONValue(v, heap, StackLimit))
    /\ UNCHANGED <<heap, doc>>

CallSerialize ==
  \E v \in Values(heap) :
    /\ out' = Record("serialize", v, serialize(v, heap))
    /\ UNCHANGED <<heap, doc>>

CallParseValue ==
  \E v \in Values(heap) :
    /\ out' = Record("parseValue", v, parseValue(v, heap))
    /\ UNCHANGED <<heap, doc>>

Next == Alloc \/ CallIsJSONValue \/ CallSerialize \/ CallParseValue

\* the query document: a new literal replaces the one built so far
NewLeaf ==
  \E l \in Leaves :
    /\ doc' = l
    /\ heap' = <<>>
    /\ out' = NoCall

WrapList ==
  /\ Size(doc) + 1 <= MaxDocNodes
  /\ doc' = ListValueNode(<<doc>>)
  /\ heap' = <<>>
  /\ out' = NoCall

InsertValue ==
  \E l \in InsertLeaves, pos \in 1..(Len(doc.values) + 1) :
    /\ doc.kind = "ListValue"
    /\ Size(doc) + 1 <= MaxDocNodes
    /\ doc' = [doc EXCEPT !.values = InsertAt(@, pos, l)]
    /\ heap' = <<>>
    /\ out' = NoCall

WrapField ==
  \E n \in FieldNames :
    /\ Size(doc) + 1 <= MaxDocNodes
    /\ doc' = ObjectValueNode(<<ObjectFieldNode(n, doc)>>)
    /\ heap' = <<>>
    /\ out' = NoCall

InsertField ==
  \E n \in FieldNames, l \in InsertLeaves, pos \in 1..(Len(doc.fields) + 1) :
    /\ doc.kind = "ObjectValue"
    /\ Size(doc) + 1 <= MaxDocNodes
    /\ doc' = [doc EXCEPT !.fields = InsertAt(@, pos, ObjectFieldNode(n, l))]
    /\ heap' = <<>>
    /\ out' = NoCall

\* parseLiteral(doc): the values it builds are the heap the caller is left with
CallParseLiteral ==
  LET r == parseLiteral(doc, <<>>)
  IN /\ out' = Record("parseLiteral", Undefined, r)
     /\ heap' = IF r.kind = "throw" THEN <<>> ELSE r.heap
     /\ UNCHANGED doc

NextLit ==
  NewLeaf \/ WrapList \/ InsertValue \/ WrapField \/ InsertField \/ CallParseLiteral

SpecLit == Init /\ [][NextLit]_vars

Spec == Init /\ [][Next]_vars

\* the caller stores a reference to one of its arrays or objects in one of
\* them (value.push(other), obj[key] = other), possibly in itself
Store ==
  \E a \in 1..Len(heap), b \in 1..Len(heap), key \in PropNames :
    /\ NodeCount(heap) + 1 <= MaxNodes
    /\ IF heap[a].isArray
       THEN heap' = [heap EXCEPT ![a].vals = Append(@, Ref(b))]
       ELSE /\ IndexOfKey(heap[a], key) = 0
            /\ heap' = SetProperty(heap, a, key, Ref(b))
    /\ out' = NoCall
    /\ UNCHANGED doc

NextCyclic == Alloc \/ Store \/ CallIsJSONValue

\* as Spec for isJSONValue, over heaps whose arrays and objects may
\* contain themselves
SpecCyclic == Init /\ [][NextCyclic]_vars

---------------------------------------------------------------------------
(* Vocabulary of the properties *)

\* the JSON-Value domain: a string, a number, a boolean, null, an array of
\* JSON values, or a plain object whose property values are JSON values
RECURSIVE InJSONDomain(_, _)
InJSONDomain(v, h) ==
  \/ v.kind \in {"string", "number", "boolean", "null"}
  \/ /\ v.kind = "ref"
     /\ h[v.num].proto = (IF h[v.num].isArray THEN ArrayPrototype ELSE ObjectPrototype)
     /\ \A i \in 1..Len(h[v.num].vals) : InJSONDomain(h[v.num].vals[i], h)

IsPlainContainer(o) ==
  o.proto = (IF o.isArray THEN ArrayPrototype ELSE ObjectPrototype)

IsClassInstance(o) == o.proto \in {TestClassPrototype, MyArrayPrototype}

\* undefined, a function, a symbol, a Date, a RegExp, an Error, an instance
\* of a custom class, or an array or plain object holding one at any depth
RECURSIVE HoldsNonJSON(_, _)
HoldsNonJSON(v, h) ==
  \/ v.kind \in {"undefined", "function", "symbol", "Date", "RegExp", "Error"}
  \/ /\ v.kind = "ref"
     /\ \/ IsClassInstance(h[v.num])
        \/ /\ IsPlainContainer(h[v.num])
           /\ \E i \in 1..Len(h[v.num].vals) : HoldsNonJSON(h[v.num].vals[i], h)

Outcome(o) == [kind |-> o.kind, value |-> o.value, error |-> o.error, message |-> o.message]

Converted == out.op \in {"serialize", "parseValue"}

\* the ISO-8601 strings of the dates of the model
ISOString(d) ==
  CASE d = DateOf(19358, 0) -> "2023-01-01T00:00:00.000Z"
    [] d = DateOf(0 - 1, 86399999) -> "1969-12-31T23:59:59.999Z"
    [] OTHER -> ""

RejectionMessage(rendering) ==
  "JSON cannot represent value: " \o rendering
    \o ".Only plain objects, arrays, and primitives are supported."

UnsupportedMessage(tag) ==
  "JSON cannot represent value: " \o tag
    \o ".Only StringValue, IntValue, FloatValue, BooleanValue, NullValue, ObjectValue, and ListValue are supported"

\* the tags of the nodes of a document
RECURSIVE KindsIn(_)
KindsIn(ast) ==
  {ast.kind}
    \cup UNION { KindsIn(ast.values[i]) : i \in 1..Len(ast.values) }
    \cup UNION { KindsIn(ast.fields[i].value) : i \in 1..Len(ast.fields) }

AllSupported(ast) == KindsIn(ast) \subseteq SupportedKinds

\* a value with everything reachable from it, free of addresses
RECURSIVE TreeOf(_, _)
TreeOf(v, h) ==
  IF v.kind = "ref"
  THEN [v |-> Null, isArray |-> h[v.num].isArray, proto |-> TreeOf(h[v.num].proto, h),
        keys |-> h[v.num].keys,
        items |-> [i \in 1..Len(h[v.num].vals) |-> TreeOf(h[v.num].vals[i], h)]]
  ELSE [v |-> v, isArray |-> FALSE, proto |-> <<>>, keys |-> <<>>, items |-> <<>>]

ArrayTree(items) ==
  [v |-> Null, isArray |-> TRUE, proto |-> TreeOf(ArrayPrototype, <<>>),
   keys |-> <<>>, items |-> items]

\* what the code decodes a node to, as a tree
DecodedTree(ast) ==
  LET r == parseLiteral(ast, <<>>) IN TreeOf(r.value, r.heap)

\* the number a numeric text of the model writes
NumberOf(text) ==
  CASE text = "42" -> Normalize(42, 0)
    [] text = "1" -> Normalize(1, 0)
    [] text = "-7" -> Normalize(0 - 7, 0)
    [] text = "100" -> Normalize(100, 0)
    [] text = "3.14" -> Normalize(314, 0 - 2)
    [] text = "1e2" -> Normalize(100, 0)

\* the value a leaf or a list literal stands for (an object literal
\* inside a list stands for what the decoder makes of it)
RECURSIVE Denotation(_)
Denotation(ast) ==
  CASE ast.kind = "StringValue" -> TreeOf(Str(ast.value), <<>>)
    [] ast.kind \in {"IntValue", "FloatValue"} -> TreeOf(NumberOf(ast.value), <<>>)
    [] ast.kind = "BooleanValue" -> TreeOf(Bool(ast.value = "true"), <<>>)
    [] ast.kind = "NullValue" -> TreeOf(Null, <<>>)
    [] ast.kind = "ListValue" ->
         ArrayTree([i \in 1..Len(ast.values) |-> Denotation(ast.values[i])])
    [] OTHER -> DecodedTree(ast)

FieldNamesOf(ast) == { ast.fields[i].name.value : i \in 1..Len(ast.fields) }

LastFieldNamed(ast, n) ==
  CHOOSE i \in 1..Len(ast.fields) :
    /\ ast.fields[i].name.value = n
    /\ \A j \in (i + 1)..Len(ast.fields) : ast.fields[j].name.value # n

---------------------------------------------------------------------------
(* Properties *)

\* C1: isJSONValue returns true for every value of the JSON-Value domain,
\* whatever the keys of its objects are.
C1_DomainValidates ==
  (out.op = "isJSONValue" /\ InJSONDomain(out.input, heap))
    => (out.kind = "return" /\ out.value = Bool(TRUE))

\* C2: isJSONValue returns false for undefined, a function, a symbol, a
\* Date, a RegExp, an Error and an instance of a custom class, and for an
\* array or plain object holding one of them at any depth.
C2_NonJSONRejected ==
  (out.op = "isJSONValue" /\ HoldsNonJSON(out.input, heap))
    => (out.kind = "return" /\ out.value = Bool(FALSE))

\* C3: for every Date passed directly, serialize and parseValue return its
\* ISO-8601 string and do not fail.
C3_DateToISOString ==
  (Converted /\ out.input.kind = "Date")
    => (out.kind = "return" /\ out.value = Str(ISOString(out.input)))

\* C4: for every value of the JSON-Value domain, serialize and parseValue
\* succeed and return the very value they were given.
C4_DomainReturnedAsIs ==
  (Converted /\ InJSONDomain(out.input, heap))
    => (out.kind = "return" /\ out.value = out.input)

\* C5: for every input that is no Date and that isJSONValue rejects,
\* serialize and parseValue fail with a TypeError whose message holds a
\* rendering of the input and the sentence about plain objects, arrays and
\* primitives.
C5_RejectionMessage ==
  (Converted /\ out.input.kind # "Date"
     /\ isJSONValue(out.input, heap, StackLimit) = Return(Bool(FALSE)))
    => /\ out.kind = "throw"
       /\ out.error = "TypeError"
       /\ String(out.input, heap).kind = "return"
       /\ out.message = RejectionMessage(String(out.input, heap).value.str)

\* C6: serialize and parseValue behave alike: on the same input both return
\* the same value, or both fail with the same error and message.
C6_ConvertersAgree ==
  /\ out.op = "serialize" => Outcome(out) = parseValue(out.input, heap)
  /\ out.op = "parseValue" => Outcome(out) = serialize(out.input, heap)

C6_Witness ==
  /\ out.op = "parseValue"
  /\ out.input.kind = "ref"
  /\ out.kind = "throw"
  /\ out.error = "TypeError"

\* C7: parseLiteral decodes a leaf literal by its tag, and a list literal
\* of n nodes to an array of n elements, the i-th being the decoding of
\* the i-th node, at any depth.
C7_LeavesAndLists ==
  (out.op = "parseLiteral" /\ doc.kind # "ObjectValue" /\ AllSupported(doc))
    => (out.kind = "return" /\ TreeOf(out.value, heap) = Denotation(doc))

C7_Witness ==
  /\ out.op = "parseLiteral"
  /\ out.kind = "return"
  /\ doc.kind = "ListValue"
  /\ Len(doc.values) = 2
  /\ doc.values[1].kind = "ListValue"
  /\ doc.values[2].kind = "IntValue"
  /\ heap[out.value.num].vals[2] = Num(1, 0)

\* C8: for an object literal, parseLiteral returns a mapping whose own keys
\* are exactly the field names of the literal, each mapped to the decoding
\* of the last field of that name.
C8_ObjectKeys ==
  (out.op = "parseLiteral" /\ doc.kind = "ObjectValue" /\ AllSupported(doc))
    => /\ out.kind = "return"
       /\ out.value.kind = "ref"
       /\ { heap[out.value.num].keys[i] : i \in 1..Len(heap[out.value.num].keys) }
            = FieldNamesOf(doc)
       /\ \A n \in FieldNamesOf(doc) :
            TreeOf(heap[out.value.num].vals[IndexOfKey(heap[out.value.num], n)], heap)
              = DecodedTree(doc.fields[LastFieldNamed(doc, n)].value)

\* C9: when a node of the document, at the root or at any depth, carries a
\* tag parseLiteral has no case for, parseLiteral returns nothing and fails
\* with a TypeError whose message names an unsupported tag of the document.
C9_UnsupportedTagThrows ==
  (out.op = "parseLiteral" /\ ~AllSupported(doc))
    => /\ out.kind = "throw"
       /\ out.error = "TypeError"
       /\ out.value = Undefined
       /\ \E tag \in KindsIn(doc) \ SupportedKinds : out.message = UnsupportedMessage(tag)

C9_Witness ==
  /\ out.op = "parseLiteral"
  /\ out.kind = "throw"
  /\ doc.kind = "ObjectValue"
  /\ Len(doc.fields) = 1
  /\ doc.fields[1].value.kind = "ListValue"
  /\ doc.fields[1].value.values = <<EnumValueNode("TEST")>>

\* C10: every value parseLiteral returns for a document of supported tags
\* is accepted by isJSONValue, and serialize and parseValue return it as is.
C10_DecodedIsJSONValue ==
  (out.op = "parseLiteral" /\ AllSupported(doc))
    => /\ out.kind = "return"
       /\ isJSONValue(out.value, heap, StackLimit) = Return(Bool(TRUE))
       /\ serialize(out.value, heap) = Return(out.value)
       /\ parseValue(out.value, heap) = Return(out.value)

\* C11: isJSONValue is total: for every input, an array or plain object
\* that contains itself included, the call returns a boolean and does not
\* throw.
C11_ValidatorTotal ==
  out.op = "isJSONValue"
    => (out.kind = "return" /\ out.value \in {Bool(TRUE), Bool(FALSE)})

\* a Date is an element or a property value of the container, at any depth
RECURSIVE HoldsDate(_, _)
HoldsDate(v, h) ==
  /\ v.kind = "ref"
  /\ \E i \in 1..Len(h[v.num].vals) :
       \/ h[v.num].vals[i].kind = "Date"
       \/ HoldsDate(h[v.num].vals[i], h)

\* a container that holds a Date is not converted: the converter fails with
\* a TypeError
C12_NestedDateRejected ==
  (Converted /\ HoldsDate(out.input, heap))
    => (out.kind = "throw" /\ out.error = "TypeError")

\* C12: Date conversion applies to the top-level input only: a Date held by
\* an array or an object at any depth makes serialize and parseValue fail
\* with a TypeError, and a value is accepted by the converters exactly when
\* it is itself a Date or isJSONValue accepts it.
C12_DateOnlyTopLevel ==
  Converted
    => /\ HoldsDate(out.input, heap)
            => (out.kind = "throw" /\ out.error = "TypeError")
       /\ (out.kind = "return")
            <=> \/ out.input.kind = "Date"
                \/ isJSONValue(out.input, heap, StackLimit) = Return(Bool(TRUE))

====
